---- MODULE Spec2Model ----
(***************************************************************************)
(* Model of gif_gen.py: the frame loop that renders FRAMES frames of the   *)
(* synthwave scene (stars, perspective grid, rotating wireframe, scanline  *)
(* overlay) and saves them as one animated GIF.                            *)
(*                                                                         *)
(* Arithmetic.  The script computes in Python floats; the model computes   *)
(* in exact rationals wherever the script's expressions are rational       *)
(* (progress, star drift, grid proportions, horizon intersections), each   *)
(* kept as an integer numerator over a named denominator.  Rounding of     *)
(* IEEE-754 doubles is not modelled.  The trigonometric part (rotation of  *)
(* the wireframe, star twinkle) is computed in fixed point from a sine     *)
(* table with TrigScale steps per unit, truncating toward zero.            *)
(*                                                                         *)
(* A raster image is modelled by the ordered list of draw calls made on    *)
(* it; a frame by its index and the order of the composited layers.        *)
(***************************************************************************)
EXTENDS Integers, Sequences, FiniteSets, TLC

\* ------------------------------------------------------------ configuration
WIDTH == 500
HEIGHT == 350
FRAMES == 40
DURATION == 80

\* HORIZON_Y = HEIGHT * 0.55, in half pixels (192.5 px = 385 half pixels)
HORIZON_Y2 == (HEIGHT * 11) \div 10

C_GRID == <<255, 20, 180>>
C_CYAN == <<0, 255, 255>>
C_PURPLE == <<160, 50, 255>>
C_STAR == <<220, 240, 255>>

\* ------------------------------------------------------------ model bounds
\* num_stars is 150 in the script; the model draws MaxStars of them.
MaxStars == 2

\* ------------------------------------------------------------ arithmetic
Abs(n) == IF n < 0 THEN -n ELSE n

\* Division truncating toward zero (symmetric under negation).
Trunc(n, d) == IF n < 0 THEN -((-n) \div d) ELSE n \div d

RECURSIVE GCD(_, _)
GCD(a, b) == IF b = 0 THEN a ELSE GCD(b, a % b)

LCM(a, b) == (a \div GCD(a, b)) * b

\* Products of naturals that stop at IntCap instead of overflowing: used only
\* on the larger side of a comparison whose other side is below IntCap.
IntCap == (2^30 - 1) + 2^30
SatMul(a, b) == IF b # 0 /\ a > IntCap \div b THEN IntCap ELSE a * b

RECURSIVE SatPow(_, _)
SatPow(a, k) == IF k = 0 THEN 1 ELSE SatMul(a, SatPow(a, k - 1))

\* ------------------------------------------------------------ trigonometry
\* Angles are counted in steps of pi/FRAMES (4.5 degrees): every angle the
\* script uses at progress i/FRAMES is a whole number of steps.
TrigScale == 10^3
TurnSteps == 2 * FRAMES

\* round(TrigScale * sin(k * pi / 40)), k = 0..79
SinTable ==
  << 0, 78, 156, 233, 309, 383, 454, 522, 588, 649,
     707, 760, 809, 853, 891, 924, 951, 972, 988, 997,
     1000, 997, 988, 972, 951, 924, 891, 853, 809, 760,
     707, 649, 588, 522, 454, 383, 309, 233, 156, 78,
     0, -78, -156, -233, -309, -383, -454, -522, -588, -649,
     -707, -760, -809, -853, -891, -924, -951, -972, -988, -997,
     -1000, -997, -988, -972, -951, -924, -891, -853, -809, -760,
     -707, -649, -588, -522, -454, -383, -309, -233, -156, -78 >>

Sin(k) == SinTable[(k % TurnSteps) + 1]
Cos(k) == Sin(k + TurnSteps \div 4)

\* ------------------------------------------------------------ draw_glow_line
\* int(100 * glow_intensity) for glow_intensity = sqrt(isqNum / isqDen) in [0,1]
GlowAlpha(isqNum, isqDen) ==
  LET g == GCD(isqDen, 10000)
      l == 10000 \div g
      r == isqDen \div g
  IN  CHOOSE a \in 0..100 :
        /\ a * a * r <= l * isqNum
        /\ (a + 1) * (a + 1) * r > l * isqNum

Brighten(c) == IF c + 50 < 255 THEN c + 50 ELSE 255

\* The two strokes of one glow line: the wide translucent one, then the core.
DrawGlowLine(layer, start, end, color, width_base, isqNum, isqDen) ==
  << [layer |-> layer, op |-> "line", start |-> start, end |-> end,
      fill |-> <<color[1], color[2], color[3], GlowAlpha(isqNum, isqDen)>>,
      width |-> width_base + 4],
     [layer |-> layer, op |-> "line", start |-> start, end |-> end,
      fill |-> <<Brighten(color[1]), Brighten(color[2]), Brighten(color[3]), 255>>,
      width |-> width_base] >>

RECURSIVE Flatten(_)
Flatten(ss) == IF ss = <<>> THEN <<>> ELSE Head(ss) \o Flatten(Tail(ss))

\* ------------------------------------------------------------ stars
\* A star is [pos |-> <<x, y>>, size |-> 1..3, phase |-> k], created once with
\* x = randint(0, WIDTH), y = randint(0, int(HORIZON_Y)), size = randint(1, 3);
\* phase = uniform(0, 2*pi) is sampled at the multiples k * pi/10, k in 0..19.
StarXs == 0..WIDTH
StarYs == 0..(HORIZON_Y2 \div 2)
StarSizes == 1..3
StarPhases == 0..19

StarSamples ==
  { [pos |-> <<0, 0>>, size |-> 1, phase |-> 0],
    [pos |-> <<WIDTH, HORIZON_Y2 \div 2>>, size |-> 3, phase |-> 5],
    [pos |-> <<WIDTH - 10, 100>>, size |-> 2, phase |-> 13] }

\* Faulty variant: progress = (i + 1) / FRAMES
ProgressOffByOne(n) == n + 1

\* progress = i / FRAMES, kept as its numerator over FRAMES
Progress(n) == n

\* int(50 + brightness * 205), brightness = (sin(progress*4*pi + phase) + 1) / 2
StarAlpha(star, p) ==
  (100 * TrigScale + (Sin(4 * p + 4 * star.phase) + TrigScale) * 205)
    \div (2 * TrigScale)

\* Faulty variant: the drift without % WIDTH
StarXNoWrap(star, p) == star.pos[1] * FRAMES + 20 * p

\* sx = (sx + progress * 20) % WIDTH, in units of 1/FRAMES pixel
StarX(star, p) == (star.pos[1] * FRAMES + 20 * p) % (WIDTH * FRAMES)

\* The ellipse of one star and, for a big bright star, its halo.
\* Boxes are <<x0, y0, x1, y1>> in units of 1/FRAMES pixel.
StarDraws(star, p) ==
  LET alpha == StarAlpha(star, p)
      sx == StarX(star, p)
      sy == star.pos[2] * FRAMES
      sz == star.size * FRAMES
      body == [layer |-> "stars", op |-> "ellipse",
               box |-> <<sx - FRAMES, sy - FRAMES, sx + sz, sy + sz>>,
               fill |-> <<C_STAR[1], C_STAR[2], C_STAR[3], alpha>>]
      halo == [layer |-> "stars", op |-> "ellipse",
               box |-> <<sx - 3 * FRAMES, sy - 3 * FRAMES,
                         sx + sz + 2 * FRAMES, sy + sz + 2 * FRAMES>>,
               fill |-> <<C_STAR[1], C_STAR[2], C_STAR[3], 50>>]
  IN  IF star.size > 1 /\ alpha > 200 THEN <<body, halo>> ELSE <<body>>

AllStarDraws(ss, p) == Flatten([s \in 1..Len(ss) |-> StarDraws(ss[s], p)])

\* ------------------------------------------------------------ grid
\* range(-WIDTH, WIDTH * 2, 60)
VLineBases ==
  LET count == (3 * WIDTH + 59) \div 60
  IN  [k \in 1..count |-> -WIDTH + 60 * (k - 1)]

\* Faulty variant: a vanishing point that drifts with progress
VanishingPointMoving(p) == <<WIDTH - 2 * p, HORIZON_Y2 - 100>>

\* vp_x, vp_y = WIDTH / 2, HORIZON_Y - 50, in half pixels, as computed in the
\* iteration with progress p
VanishingPoint(p) == <<WIDTH, HORIZON_Y2 - 100>>

\* One vertical line: the horizon intersection hx as <<numerator, denominator>>
\* in half pixels, and its glow line; nothing when by - vp_y = 0.
VerticalLine(x_base, p) ==
  LET vp == VanishingPoint(p)
      bx == 2 * x_base
      by == 2 * HEIGHT
      den == by - vp[2]
      hx == <<vp[1] * den + (bx - vp[1]) * (HORIZON_Y2 - vp[2]), den>>
  IN  IF den # 0
      THEN DrawGlowLine("vgrid", <<hx, HORIZON_Y2>>, <<bx, by>>, C_GRID, 1, 1, 1)
      ELSE <<>>

VerticalLines(p) ==
  Flatten([k \in 1..Len(VLineBases) |-> VerticalLine(VLineBases[k], p)])

num_h_lines == 12

\* Proportions are numerators over PropDen = lcm(num_h_lines, FRAMES).
PropDen == LCM(num_h_lines, FRAMES)

\* Faulty variant: prop_base - progress without % 1.0
PropScrolledNoWrap(j, p) ==
  j * (PropDen \div num_h_lines) - p * (PropDen \div FRAMES)

\* prop_scrolled = (prop_base - progress) % 1.0
PropScrolled(j, p) ==
  (j * (PropDen \div num_h_lines) - p * (PropDen \div FRAMES)) % PropDen

\* y_pos > HORIZON_Y + 2, y_pos = HORIZON_Y + (HEIGHT - HORIZON_Y) * prop^2.5:
\* with span2 = 2*(HEIGHT - HORIZON_Y) it is span2^2 * n^5 > 16 * PropDen^5,
\* both sides divided by g^2, g = gcd(span2, PropDen).
BelowHorizon(n) ==
  LET span2 == 2 * HEIGHT - HORIZON_Y2
      g == GCD(span2, PropDen)
      lhs == SatMul((span2 \div g) * (span2 \div g), SatPow(Abs(n), 5))
      rhs == 16 * (PropDen \div g) * (PropDen \div g) * PropDen * PropDen * PropDen
  IN  n > 0 /\ lhs > rhs

\* One horizontal line.  y_pos and intensity = prop^1.5 are increasing functions
\* of prop_scrolled alone; y_pos is kept as that proportion.
HorizontalLine(j, p) ==
  LET n == PropScrolled(j, p)
  IN  IF BelowHorizon(n)
      THEN DrawGlowLine("hgrid", <<0, [prop |-> n]>>, <<WIDTH, [prop |-> n]>>,
                        C_GRID, 1, n * n * n, PropDen * PropDen * PropDen)
      ELSE <<>>

HorizontalLines(p) ==
  Flatten([k \in 1..num_h_lines |-> HorizontalLine(k - 1, p)])

\* ------------------------------------------------------------ structure
\* Faulty variant: a bottom peak that does not mirror the top peak
structure_vertices_lopsided ==
  << <<0, -50, 0>>, <<0, 40, 0>>,
     <<-40, -20, 40>>, <<40, -20, 40>>, <<40, -20, -40>>, <<-40, -20, -40>>,
     <<-40, 20, 40>>, <<40, 20, 40>>, <<40, 20, -40>>, <<-40, 20, -40>> >>

\* Vertices relative to the centre (0, 0, 0)
structure_vertices ==
  << <<0, -50, 0>>, <<0, 50, 0>>,
     <<-40, -20, 40>>, <<40, -20, 40>>, <<40, -20, -40>>, <<-40, -20, -40>>,
     <<-40, 20, 40>>, <<40, 20, 40>>, <<40, 20, -40>>, <<-40, 20, -40>> >>

\* Faulty variant: the same edges with 1-based indices
structure_edges_one_based ==
  << <<1, 3>>, <<1, 4>>, <<1, 5>>, <<1, 6>>,
     <<2, 7>>, <<2, 8>>, <<2, 9>>, <<2, 10>>,
     <<3, 4>>, <<4, 5>>, <<5, 6>>, <<6, 3>>,
     <<7, 8>>, <<8, 9>>, <<9, 10>>, <<10, 7>>,
     <<3, 7>>, <<4, 8>>, <<5, 9>>, <<6, 10>> >>

\* Pairs of 0-based vertex indices, as in the script.
structure_edges ==
  << <<0, 2>>, <<0, 3>>, <<0, 4>>, <<0, 5>>,
     <<1, 6>>, <<1, 7>>, <<1, 8>>, <<1, 9>>,
     <<2, 3>>, <<3, 4>>, <<4, 5>>, <<5, 2>>,
     <<6, 7>>, <<7, 8>>, <<8, 9>>, <<9, 6>>,
     <<2, 6>>, <<3, 7>>, <<4, 8>>, <<5, 9>> >>

\* structure_center_base = (WIDTH * 0.7, HEIGHT * 0.3), in 1/TrigScale pixel
structure_center_base ==
  <<(WIDTH * 7 * TrigScale) \div 10, (HEIGHT * 3 * TrigScale) \div 10>>

\* cx = cx - progress * 40; cy unchanged
CurrentCenter(p) ==
  <<structure_center_base[1] - (40 * TrigScale * p) \div FRAMES,
    structure_center_base[2]>>

\* angle_y = progress * 360 and angle_z = progress * 180, in steps of pi/FRAMES
AngleY(p) == 2 * p
AngleZ(p) == p

\* Rotation about the Y axis, in 1/TrigScale units
RotX(v, p) == v[1] * Cos(AngleY(p)) - v[3] * Sin(AngleY(p))
RotZ(v, p) == v[1] * Sin(AngleY(p)) + v[3] * Cos(AngleY(p))

\* Faulty variant: depth divisor 40 instead of 400
ProjDenomNear(rz) == 40 * TrigScale + rz

\* (1 + rz / 400), times 400 * TrigScale
ProjDenom(rz) == 400 * TrigScale + rz

\* scale = 1.2 / (1 + rz / 400), in 1/TrigScale units; the divisor is not 0
ProjScale(rz) == Trunc(12 * 40 * TrigScale * TrigScale, ProjDenom(rz))

\* Offsets of the projected vertex from the current centre, 1/TrigScale pixel
VertexOffset(v, p) ==
  LET rx == RotX(v, p)
      rz == RotZ(v, p)
      rrx == Trunc(rx * Cos(AngleZ(p)) - v[2] * TrigScale * Sin(AngleZ(p)),
                   TrigScale)
      rry == Trunc(rx * Sin(AngleZ(p)) + v[2] * TrigScale * Cos(AngleZ(p)),
                   TrigScale)
      scale == ProjScale(rz)
  IN  <<Trunc(rrx * scale, TrigScale), Trunc(rry * scale, TrigScale)>>

TransformVertex(v, p) ==
  LET c == CurrentCenter(p)
      o == VertexOffset(v, p)
  IN  <<c[1] + o[1], c[2] + o[2]>>

\* The vertices whose projection divides by zero
ZeroDepth(p) ==
  {k \in 1..Len(structure_vertices) :
     ProjDenom(RotZ(structure_vertices[k], p)) = 0}

\* Python list indexing: idx is valid for a list of n items iff -n <= idx < n
ValidIndex(idx, n) == -n <= idx /\ idx < n
ListGet(list, idx) == IF idx < 0 THEN list[Len(list) + idx + 1] ELSE list[idx + 1]

\* The edges (positions in structure_edges) whose lookup raises IndexError
BadEdges(tv) ==
  {k \in 1..Len(structure_edges) :
     ~(ValidIndex(structure_edges[k][1], Len(tv))
       /\ ValidIndex(structure_edges[k][2], Len(tv)))}

\* avg_y < cy -> C_CYAN, else C_PURPLE
EdgeColor(p1, p2, cy) == IF p1[2] + p2[2] < 2 * cy THEN C_CYAN ELSE C_PURPLE

EdgeDraw(e, tv, cy) ==
  LET p1 == ListGet(tv, e[1])
      p2 == ListGet(tv, e[2])
  IN  DrawGlowLine("edges", p1, p2, EdgeColor(p1, p2, cy), 2, 1, 1)

\* The strokes of the first m edges
EdgeDraws(m, tv, cy) ==
  Flatten([k \in 1..m |-> EdgeDraw(structure_edges[k], tv, cy)])

\* vert_bright = random.randint(150, 255), sampled at its two ends
VertBrights == {150, 255}

\* One point per projected vertex; its alpha is the vert_bright drawn for it
\* (not kept in the draw list: only the last draw stays in vert_bright)
VertexDraws(tv) ==
  [k \in 1..Len(tv) |->
     [layer |-> "vertices", op |-> "ellipse",
      box |-> <<tv[k][1] - 2 * TrigScale, tv[k][2] - 2 * TrigScale,
                tv[k][1] + 2 * TrigScale, tv[k][2] + 2 * TrigScale>>,
      fill |-> <<255, 255, 255>>]]

\* for y in range(0, HEIGHT, 4): one line per y on scan_overlay
ScanDraws ==
  [k \in 1..((HEIGHT + 3) \div 4) |->
     [layer |-> "scanlines", op |-> "line", start |-> <<0, 4 * (k - 1)>>,
      end |-> <<WIDTH, 4 * (k - 1)>>, fill |-> <<0, 0, 0, 50>>, width |-> 1]]

\* ------------------------------------------------------------ state
VARIABLES
  pc,                    \* where the script is: "loop", a stage of the loop body,
                         \* "done" or "aborted"
  i,                     \* the next index range(FRAMES) yields
  progress,              \* numerator of progress (over FRAMES); -1 before frame 0
  stars,                 \* the star list
  frames,                \* the list of finished frames
  img,                   \* the background image of the current frame
  overlay,               \* the draw calls made on the overlay, in order
  transformed_vertices,  \* the projected vertices of the current frame
  comp,                  \* the composited scene: its layers, bottom first
  vert_bright,           \* the last vertex brightness drawn; -1 before the first
  error,                 \* the exception that ended the run, if any
  saved                  \* the arguments of frames[0].save, once it has run

vars == <<pc, i, progress, stars, frames, img, overlay, transformed_vertices,
          comp, vert_bright, error, saved>>

NoError == [kind |-> "none", frame |-> -1]
NoFile == [name |-> "none"]

\* Faulty variant: the vertex points drawn before the edges
StageOrderVerticesFirst ==
  <<"stars", "vgrid", "hgrid", "structure", "vertices", "edges",
    "composite", "scanlines", "append">>

\* The statements of the loop body, in program order
StageOrder ==
  <<"stars", "vgrid", "hgrid", "structure", "edges", "vertices",
    "composite", "scanlines", "append">>

Stages == {StageOrder[k] : k \in 1..Len(StageOrder)}
StageIndex(p) == CHOOSE k \in 1..Len(StageOrder) : StageOrder[k] = p
After(p) == StageOrder[StageIndex(p) + 1]

TypeOK ==
  /\ pc \in Stages \cup {"loop", "done", "aborted"}
  /\ i \in 0..FRAMES
  /\ progress \in -1..FRAMES
  /\ vert_bright \in VertBrights \cup {-1}
  /\ Len(frames) <= FRAMES
  /\ \A s \in 1..Len(stars) :
       /\ stars[s].pos[1] \in StarXs
       /\ stars[s].pos[2] \in StarYs
       /\ stars[s].size \in StarSizes
       /\ stars[s].phase \in StarPhases

InitCommon ==
  /\ pc = "loop"
  /\ i = 0
  /\ progress = -1
  /\ frames = <<>>
  /\ img = "none"
  /\ overlay = <<>>
  /\ transformed_vertices = <<>>
  /\ comp = <<>>
  /\ vert_bright = -1
  /\ error = NoError
  /\ saved = NoFile

Init ==
  /\ stars \in [1..MaxStars -> StarSamples]
  /\ InitCommon

Abort(kind) ==
  /\ pc' = "aborted"
  /\ error' = [kind |-> kind, frame |-> i]

\* for i in range(FRAMES): img, overlay, draw and progress of the new frame
StartFrame ==
  /\ pc = "loop"
  /\ i < FRAMES
  /\ img' = "gradient"
  /\ overlay' = <<>>
  /\ progress' = Progress(i)
  /\ pc' = StageOrder[1]
  /\ UNCHANGED <<i, stars, frames, transformed_vertices, comp, vert_bright,
                 error, saved>>

DrawStars ==
  /\ pc = "stars"
  /\ overlay' = overlay \o AllStarDraws(stars, progress)
  /\ pc' = After(pc)
  /\ UNCHANGED <<i, progress, stars, frames, img, transformed_vertices, comp,
                 vert_bright, error, saved>>

DrawVerticalLines ==
  /\ pc = "vgrid"
  /\ overlay' = overlay \o VerticalLines(progress)
  /\ pc' = After(pc)
  /\ UNCHANGED <<i, progress, stars, frames, img, transformed_vertices, comp,
                 vert_bright, error, saved>>

DrawHorizontalLines ==
  /\ pc = "hgrid"
  /\ overlay' = overlay \o HorizontalLines(progress)
  /\ pc' = After(pc)
  /\ UNCHANGED <<i, progress, stars, frames, img, transformed_vertices, comp,
                 vert_bright, error, saved>>

\* The vertex loop; 1.2 / 0.0 raises ZeroDivisionError
TransformVertices ==
  /\ pc = "structure"
  /\ IF ZeroDepth(progress) # {}
     THEN /\ Abort("ZeroDivisionError")
          /\ UNCHANGED transformed_vertices
     ELSE /\ transformed_vertices' =
               [k \in 1..Len(structure_vertices) |->
                  TransformVertex(structure_vertices[k], progress)]
          /\ pc' = After(pc)
          /\ UNCHANGED error
  /\ UNCHANGED <<i, progress, stars, frames, img, overlay, comp, vert_bright,
                 saved>>

\* The edge loop; the first edge with an index out of range raises IndexError
\* after the edges before it were drawn
DrawEdges ==
  /\ pc = "edges"
  /\ LET bad == BadEdges(transformed_vertices)
         cy == CurrentCenter(progress)[2]
     IN  IF bad # {}
         THEN LET first == CHOOSE k \in bad : \A m \in bad : k <= m
              IN  /\ overlay' = overlay \o
                                  EdgeDraws(first - 1, transformed_vertices, cy)
                  /\ Abort("IndexError")
         ELSE /\ overlay' = overlay \o
                    EdgeDraws(Len(structure_edges), transformed_vertices, cy)
              /\ pc' = After(pc)
              /\ UNCHANGED error
  /\ UNCHANGED <<i, progress, stars, frames, img, transformed_vertices, comp,
                 vert_bright, saved>>

DrawVertices ==
  /\ pc = "vertices"
  /\ \E b \in VertBrights : vert_bright' = b
  /\ overlay' = overlay \o VertexDraws(transformed_vertices)
  /\ pc' = After(pc)
  /\ UNCHANGED <<i, progress, stars, frames, img, transformed_vertices, comp,
                 error, saved>>

\* comp = Image.alpha_composite(img, overlay)
Composite ==
  /\ pc = "composite"
  /\ comp' = <<[name |-> "background", image |-> img],
               [name |-> "overlay", draws |-> overlay]>>
  /\ pc' = After(pc)
  /\ UNCHANGED <<i, progress, stars, frames, img, overlay, transformed_vertices,
                 vert_bright, error, saved>>

\* comp = Image.alpha_composite(comp, scan_overlay)
Scanlines ==
  /\ pc = "scanlines"
  /\ comp' = Append(comp, [name |-> "scanlines", draws |-> ScanDraws])
  /\ pc' = After(pc)
  /\ UNCHANGED <<i, progress, stars, frames, img, overlay, transformed_vertices,
                 vert_bright, error, saved>>

\* comp.convert("RGB"): the frame keeps the progress it was rendered with and,
\* per layer, its name and number of draw calls
Frame(c, p) ==
  [progress |-> p, mode |-> "RGB",
   layers |-> [k \in 1..Len(c) |-> c[k].name],
   draws |-> [k \in 1..Len(c) |->
                IF c[k].name = "background" THEN 0 ELSE Len(c[k].draws)]]

AppendFrame ==
  /\ pc = "append"
  /\ frames' = Append(frames, Frame(comp, progress))
  /\ i' = i + 1
  /\ pc' = "loop"
  /\ UNCHANGED <<progress, stars, img, overlay, transformed_vertices, comp,
                 vert_bright, error, saved>>

\* frames[0].save(..., append_images=frames[1:], ...), after the loop
SaveGif ==
  /\ pc = "loop"
  /\ ~(i < FRAMES)
  /\ IF frames = <<>>
     THEN /\ Abort("IndexError")
          /\ UNCHANGED saved
     ELSE /\ saved' = [name |-> "synthwave_cosmos.gif", first |-> frames[1],
                       append_images |-> Tail(frames), save_all |-> TRUE,
                       duration |-> DURATION, loop |-> 0]
          /\ pc' = "done"
          /\ UNCHANGED error
  /\ UNCHANGED <<i, progress, stars, frames, img, overlay, transformed_vertices,
                 comp, vert_bright>>

\* Faulty variant: the failure is caught and only leaves the loop
RenderFailsBreaksLoop ==
  /\ \/ pc \in Stages
     \/ pc = "loop" /\ i < FRAMES
  /\ pc' = "loop"
  /\ i' = FRAMES
  /\ UNCHANGED <<progress, stars, frames, img, overlay, transformed_vertices,
                 comp, vert_bright, error, saved>>

\* A call of the drawing surface raises while frame i is rendered: nothing
\* catches it, the script ends.
RenderFails ==
  /\ \/ pc \in Stages
     \/ pc = "loop" /\ i < FRAMES
  /\ Abort("RenderError")
  /\ UNCHANGED <<i, progress, stars, frames, img, overlay, transformed_vertices,
                 comp, vert_bright, saved>>

\* The write of the GIF raises.
SaveFails ==
  /\ pc = "loop"
  /\ ~(i < FRAMES)
  /\ Abort("ExportError")
  /\ UNCHANGED <<i, progress, stars, frames, img, overlay, transformed_vertices,
                 comp, vert_bright, saved>>

Next ==
  \/ StartFrame
  \/ DrawStars
  \/ DrawVerticalLines
  \/ DrawHorizontalLines
  \/ TransformVertices
  \/ DrawEdges
  \/ DrawVertices
  \/ Composite
  \/ Scanlines
  \/ AppendFrame
  \/ SaveGif
  \/ RenderFails
  \/ SaveFails

Spec == Init /\ [][Next]_vars

\* ------------------------------------------------------------ helpers of the claims
LayerOf(draws, layer) == SelectSeq(draws, LAMBDA d : d.layer = layer)

\* The stage of the loop body has been passed in the current frame
Passed(stage) == pc \in Stages /\ StageIndex(pc) > StageIndex(stage)

\* ------------------------------------------------------------ C1
\* C1: the driver visits the frame indices 0, 1, ..., FRAMES-1 in increasing
\* order, each once, and then stops: the k-th frame of the list (from 0) was
\* rendered with progress k/FRAMES, which is in [0,1); while frame i is rendered
\* the list holds the i frames before it; the export receives exactly FRAMES
\* frames in index order, and nothing runs after it.
C1_FrameOrder ==
  /\ Len(frames) <= FRAMES
  /\ \A k \in 1..Len(frames) :
       /\ frames[k].progress = k - 1
       /\ 0 <= frames[k].progress /\ frames[k].progress < FRAMES
  /\ pc \in Stages => Len(frames) = i /\ progress = i /\ i < FRAMES
  /\ pc = "loop" => Len(frames) = i
  /\ pc = "done" =>
       /\ Len(frames) = FRAMES
       /\ <<saved.first>> \o saved.append_images = frames
       /\ ~ENABLED Next
  /\ saved # NoFile => pc = "done"

C1_Witness == pc = "done" /\ Len(frames) = FRAMES /\ frames[FRAMES].progress = FRAMES - 1

\* ------------------------------------------------------------ C4
DriftInRange ==
  /\ pc \in Stages =>
       \A x \in StarXs :
         LET sx == StarX([pos |-> <<x, 0>>, size |-> 1, phase |-> 0], progress)
         IN  0 <= sx /\ sx < WIDTH * FRAMES
  /\ Passed("stars") =>
       LET sd == LayerOf(overlay, "stars")
       IN  /\ sd = AllStarDraws(stars, progress)
           /\ \A k \in 1..Len(sd) :
                \E s \in 1..Len(stars) :
                  /\ sd[k].box[1] \in {StarX(stars[s], progress) - FRAMES,
                                       StarX(stars[s], progress) - 3 * FRAMES}
                  /\ sd[k].box[1] >= -3 * FRAMES
                  /\ sd[k].box[1] < WIDTH * FRAMES

\* C4: for every star the generator can produce (x any integer in 0..WIDTH) and
\* every frame, the drifted x is in [0, WIDTH); the stars on the overlay are
\* drawn at the drift of their stored position for the current progress; and
\* no step of the script changes the star list, so the drift never accumulates.
C4_StarDrift == []DriftInRange /\ [][stars' = stars]_vars

\* a star created at x = WIDTH has been drawn in the last frame, wrapped
C4_Witness ==
  /\ Passed("stars")
  /\ progress = FRAMES - 1
  /\ \E s \in 1..Len(stars) :
       /\ stars[s].pos[1] = WIDTH
       /\ StarX(stars[s], progress) = 20 * progress

C3_DriftSeamless ==
  (Passed("stars") /\ progress = 0) =>
    /\ LayerOf(overlay, "stars") = AllStarDraws(stars, FRAMES)
    /\ \A s \in 1..Len(stars) : StarX(stars[s], FRAMES) = StarX(stars[s], 0)
    /\ CurrentCenter(FRAMES) = CurrentCenter(0)

\* ------------------------------------------------------------ C5
\* Bound of the error of a rotated coordinate computed from the rounded table
RotErr(v) == (Abs(v[1]) + Abs(v[3])) \div 2 + 1

\* C5: for every vertex of the wireframe and the rotation angle of every frame,
\* the rotated depth rz is above -400 (by more than the table's rounding), so
\* the divisor 1 + rz/400 is positive, no division by zero is raised and the
\* scale 1.2 / (1 + rz/400) is positive and finite.
C5_ProjectionDefined ==
  /\ error.kind # "ZeroDivisionError"
  /\ pc \in Stages =>
       \A k \in 1..Len(structure_vertices) :
         LET rz == RotZ(structure_vertices[k], progress)
         IN  /\ rz - RotErr(structure_vertices[k]) > -400 * TrigScale
             /\ ProjDenom(rz) > 0
             /\ ProjScale(rz) > 0
             /\ ProjScale(rz) <= 12 * 40 * TrigScale

\* the vertices are projected in a frame where one of them is nearest the eye
C5_Witness ==
  /\ Passed("structure")
  /\ Len(transformed_vertices) = Len(structure_vertices)
  /\ \E k \in 1..Len(structure_vertices) :
       RotZ(structure_vertices[k], progress) < -56 * TrigScale

\* ------------------------------------------------------------ C6
\* C6: in every frame the vertical lines are drawn for the same x offsets
\* range(-WIDTH, 2*WIDTH, 60), the guard by - vp_y != 0 holds, so each offset
\* gets exactly one glow line (two strokes), and the lines on the overlay, with
\* their horizon intersections, are those of frame 0.
C6_VGridStatic ==
  /\ pc \in Stages => 2 * HEIGHT - VanishingPoint(progress)[2] # 0
  /\ Passed("vgrid") =>
       LET vg == LayerOf(overlay, "vgrid")
       IN  /\ vg = VerticalLines(0)
           /\ Len(vg) = 2 * Len(VLineBases)
           /\ \A k \in 1..Len(VLineBases) :
                /\ vg[2 * k].end[1] = 2 * VLineBases[k]
                /\ vg[2 * k].start[1] = vg[2 * k - 1].start[1]

C6_Witness ==
  /\ Passed("vgrid")
  /\ progress = FRAMES - 1
  /\ Len(LayerOf(overlay, "vgrid")) = 2 * Len(VLineBases)
  /\ Len(VLineBases) = 25

\* ------------------------------------------------------------ C7
\* C7: export is all-or-nothing: save runs only with all FRAMES frames in the
\* list and after no failure; a rendering failure in frame k ends the run in
\* that frame, with the k frames before it in the list, nothing saved and no
\* step left to take.
C7_ExportAllOrNothing ==
  /\ saved # NoFile =>
       /\ Len(frames) = FRAMES
       /\ 1 + Len(saved.append_images) = FRAMES
       /\ error = NoError
  /\ pc = "done" => saved # NoFile
  /\ error.kind = "RenderError" =>
       /\ pc = "aborted"
       /\ error.frame < FRAMES
       /\ i = error.frame
       /\ Len(frames) = error.frame
       /\ saved = NoFile
       /\ ~ENABLED Next

\* rendering failed in frame 5, after five frames were finished
C7_Witness ==
  /\ error = [kind |-> "RenderError", frame |-> 5]
  /\ Len(frames) = 5
  /\ Len(overlay) > 0

\* ------------------------------------------------------------ C8
LayerOrder == <<"stars", "vgrid", "hgrid", "edges", "vertices">>
LayerRank(l) == CHOOSE k \in 1..Len(LayerOrder) : LayerOrder[k] = l

InLayerOrder(draws) ==
  \A k \in 1..(Len(draws) - 1) :
    LayerRank(draws[k].layer) <= LayerRank(draws[k + 1].layer)

\* An overlay on which every layer has been drawn, the vertex points last
CompleteOverlay(draws) ==
  /\ InLayerOrder(draws)
  /\ Len(LayerOf(draws, "stars")) >= Len(stars)
  /\ Len(LayerOf(draws, "vgrid")) = 2 * Len(VLineBases)
  /\ Len(LayerOf(draws, "edges")) = 2 * Len(structure_edges)
  /\ Len(LayerOf(draws, "vertices")) = Len(structure_vertices)
  /\ draws[Len(draws)].layer = "vertices"

\* C8: on the one overlay the draws of a frame come in the order stars,
\* vertical lines, horizontal lines, edges, vertex points, never a draw of an
\* earlier layer after one of a later layer; the overlay is composited onto
\* the background only when complete (after the last vertex point), the
\* scanlines are composited after it, and each appended frame is the flattened
\* stack background, overlay, scanlines.
C8_DrawOrder ==
  /\ InLayerOrder(overlay)
  /\ comp # <<>> =>
       /\ comp[1].name = "background"
       /\ comp[2].name = "overlay"
       /\ CompleteOverlay(comp[2].draws)
       /\ Len(comp) = 3 => comp[3].name = "scanlines"
  /\ pc = "scanlines" => Len(comp) = 2 /\ comp[2].draws = overlay
  /\ pc = "append" => Len(comp) = 3 /\ comp[2].draws = overlay
  /\ \A k \in 1..Len(frames) :
       frames[k].layers = <<"background", "overlay", "scanlines">>

C8_Witness ==
  /\ pc = "append"
  /\ i = 1
  /\ Len(comp) = 3
  /\ CompleteOverlay(overlay)
  /\ Len(LayerOf(overlay, "hgrid")) > 0

\* ------------------------------------------------------------ C9
Mirror(v) == <<-v[1], -v[2], v[3]>>
MirrorIndex(a) ==
  CHOOSE m \in 0..(Len(structure_vertices) - 1) :
    structure_vertices[m + 1] = Mirror(structure_vertices[a + 1])
EdgePairs == {{structure_edges[k][1], structure_edges[k][2]} :
                k \in 1..Len(structure_edges)}

\* The vertex and edge tables are symmetric under (x, y, z) -> (-x, -y, z)
TablesSymmetric ==
  /\ \A k \in 1..Len(structure_vertices) :
       \E m \in 1..Len(structure_vertices) :
         structure_vertices[m] = Mirror(structure_vertices[k])
  /\ \A e \in EdgePairs : {MirrorIndex(a) : a \in e} \in EdgePairs

\* The strokes of the edges as a set: unordered endpoint offsets from the
\* centre c, colour and width
EdgeSet(draws, c) ==
  { [ends |-> {<<draws[k].start[1] - c[1], draws[k].start[2] - c[2]>>,
               <<draws[k].end[1] - c[1], draws[k].end[2] - c[2]>>},
     fill |-> draws[k].fill, width |-> draws[k].width] : k \in 1..Len(draws) }

\* The edge strokes the script computes at progress p / FRAMES
EdgeSetAt(p) ==
  LET tv == [k \in 1..Len(structure_vertices) |->
               TransformVertex(structure_vertices[k], p)]
  IN  EdgeSet(EdgeDraws(Len(structure_edges), tv, CurrentCenter(p)[2]),
              CurrentCenter(p))

C10_EdgeIndicesValid ==
  /\ \A k \in 1..Len(structure_edges) :
       LET a == structure_edges[k][1]
           b == structure_edges[k][2]
       IN  /\ 0 <= a /\ a < Len(structure_vertices)
           /\ 0 <= b /\ b < Len(structure_vertices)
           /\ a # b
  /\ Passed("structure") =>
       /\ Len(transformed_vertices) = Len(structure_vertices)
       /\ BadEdges(transformed_vertices) = {}
  /\ error.kind # "IndexError"

C10_Witness ==
  /\ Passed("edges")
  /\ Len(transformed_vertices) = Len(structure_vertices)
  /\ Len(LayerOf(overlay, "edges")) = 2 * Len(structure_edges)
====
